---- MODULE Spec2Model ----
(***************************************************************************)
(* Hymn selection engine of the Italian hymns API.                         *)
(*                                                                         *)
(*   hymns/service.py            HymnService: the catalog, the sacramento  *)
(*                               and other pools, get_hymns                *)
(*   database/history_service.py HymnHistoryService: the ward history,     *)
(*                               get_smart_hymns, save_selection           *)
(*                                                                         *)
(* A hymn is a record [number, category, tags]; the catalog (hymns) is the *)
(* list HymnService loads once.  Dates are whole days.                     *)
(***************************************************************************)
EXTENDS Integers, Sequences, FiniteSets, TLC

VARIABLES
    hymns,        \* HymnService.hymns: the loaded catalog (a sequence of hymns)
    selections,   \* the hymn_selections table with its selected_hymns rows
    now,          \* datetime.now(), in days
    op,           \* the operation that ran last
    args,         \* the arguments it was called with
    ret,          \* what it returned or raised
    log           \* the history queries and warnings of the last call, in order

vars == <<hymns, selections, now, op, args, ret, log>>

-----------------------------------------------------------------------------
(* Bounds of the model *)

\* Largest number of hymns in a catalog of the pool specification
MaxHymns == 4

\* Largest number of selections the history holds
MaxSelections == 1

\* Largest number of selections the history of the ward specification holds
WardsMaxSelections == 2

\* Weeks the clock advances in the ward specification
MaxWeeks == 2

\* Years of the calendar the date specification draws from_date from
MaxYears == 2

-----------------------------------------------------------------------------
(* Values *)

None == "None"

\* ward_id = None (the ids of the wards table start at 1)
NoId == 0

SACRAMENTO == "sacramento"
OCCASIONI_SPECIALI == "occasioni speciali"
NATALE == "natale"
PASQUA == "pasqua"

FestivityType == {NATALE, PASQUA}

InvalidFilterError == "InvalidFilterError"
InsufficientHymnsError == "InsufficientHymnsError"

\* str.lower() on the strings that occur in catalogs
Lower(s) ==
    CASE s = "Natale" -> "natale"
      [] s = "Pasqua" -> "pasqua"
      [] s = "Sacramento" -> "sacramento"
      [] s = "Occasioni Speciali" -> "occasioni speciali"
      [] OTHER -> s

\* [t.lower() for t in h.tags], as the set the membership tests read
tags_lower(h) == {Lower(t) : t \in h.tags}

\* Hymn.normalize_category: the validator lower-cases the category on load
normalize_category(v) == Lower(v)

Range(s) == {s[i] : i \in 1..Len(s)}

Numbers(s) == {s[i].number : i \in 1..Len(s)}

Max(a, b) == IF a >= b THEN a ELSE b

Min(a, b) == IF a <= b THEN a ELSE b

-----------------------------------------------------------------------------
(* HymnService: filters and pools *)

filter_by_category(hs, category) ==
    SelectSeq(hs, LAMBDA h : Lower(h.category) = Lower(category))

filter_by_tags(hs, tag) ==
    SelectSeq(hs, LAMBDA h : Lower(tag) \in tags_lower(h))

exclude_special_occasions(hs) ==
    SelectSeq(hs, LAMBDA h : Lower(h.category) # OCCASIONI_SPECIALI)

\* mutant: a festive category is excluded only when the other festivity is asked for
should_exclude_hymn_unless_ordinary(h, allowed_festivity) ==
    IF Lower(h.category) = NATALE THEN allowed_festivity = PASQUA
    ELSE IF Lower(h.category) = PASQUA THEN allowed_festivity = NATALE
    ELSE IF allowed_festivity # None
         THEN \/ (NATALE \in tags_lower(h) /\ allowed_festivity # NATALE)
              \/ (PASQUA \in tags_lower(h) /\ allowed_festivity # PASQUA)
         ELSE FALSE

should_exclude_hymn(h, allowed_festivity) ==
    IF Lower(h.category) = NATALE THEN allowed_festivity # NATALE
    ELSE IF Lower(h.category) = PASQUA THEN allowed_festivity # PASQUA
    ELSE IF allowed_festivity # None
         THEN \/ (NATALE \in tags_lower(h) /\ allowed_festivity # NATALE)
              \/ (PASQUA \in tags_lower(h) /\ allowed_festivity # PASQUA)
         ELSE FALSE

exclude_festive_hymns(hs, allowed_festivity) ==
    SelectSeq(hs, LAMBDA h : ~should_exclude_hymn(h, allowed_festivity))

get_sacramento_hymns(hs, domenica_festiva, tipo_festivita) ==
    IF domenica_festiva /\ tipo_festivita # None
    THEN exclude_festive_hymns(filter_by_category(hs, SACRAMENTO), tipo_festivita)
    ELSE exclude_festive_hymns(filter_by_category(hs, SACRAMENTO), None)

\* festive_hymns_by_category + festive_hymns_by_tags, before de-duplication
festive_hymns(hs, tipo) ==
    SelectSeq(filter_by_category(hs, tipo),
              LAMBDA h : Lower(h.category) # SACRAMENTO)
    \o SelectSeq(filter_by_tags(hs, tipo),
                 LAMBDA h : Lower(h.category) # SACRAMENTO
                            /\ Lower(h.category) # tipo)

\* the de-duplication loop: keeps the first hymn of each number
RECURSIVE unique_from(_, _, _)
unique_from(fs, i, seen_numbers) ==
    IF i > Len(fs) THEN <<>>
    ELSE IF fs[i].number \notin seen_numbers /\ Lower(fs[i].category) # SACRAMENTO
         THEN <<fs[i]>> \o unique_from(fs, i + 1, seen_numbers \cup {fs[i].number})
         ELSE unique_from(fs, i + 1, seen_numbers)

unique_festive_hymns(hs, tipo) == unique_from(festive_hymns(hs, tipo), 1, {})

\* other_hymns after the strict festive filtering, before the top-up
strict_festive_hymns(hs, tipo) ==
    exclude_festive_hymns(unique_festive_hymns(hs, tipo), tipo)

\* required_hymns = 3: worst case of 4 total - 1 Sacramento
required_hymns == 3

\* mutant: the top-up does not look at the tags
has_conflicting_tags_never(h, tipo) == FALSE

has_conflicting_tags(h, tipo) ==
    \/ (tipo = NATALE /\ PASQUA \in tags_lower(h))
    \/ (tipo = PASQUA /\ NATALE \in tags_lower(h))

\* mutant: the top-up loop without the added_count < hymns_needed test
RECURSIVE topup_from_unbounded(_, _, _, _, _, _)
topup_from_unbounded(sp, i, seen_numbers, added_count, hymns_needed, tipo) ==
    IF i > Len(sp) THEN <<>>
    ELSE IF /\ sp[i].number \notin seen_numbers
            /\ ~has_conflicting_tags(sp[i], tipo)
         THEN <<sp[i]>> \o topup_from_unbounded(sp, i + 1,
                                seen_numbers \cup {sp[i].number},
                                added_count + 1, hymns_needed, tipo)
         ELSE topup_from_unbounded(sp, i + 1, seen_numbers, added_count,
                                   hymns_needed, tipo)

\* the top-up loop over the "occasioni speciali" hymns
RECURSIVE topup_from(_, _, _, _, _, _)
topup_from(sp, i, seen_numbers, added_count, hymns_needed, tipo) ==
    IF i > Len(sp) THEN <<>>
    ELSE IF /\ sp[i].number \notin seen_numbers
            /\ added_count < hymns_needed
            /\ ~has_conflicting_tags(sp[i], tipo)
         THEN <<sp[i]>> \o topup_from(sp, i + 1, seen_numbers \cup {sp[i].number},
                                      added_count + 1, hymns_needed, tipo)
         ELSE topup_from(sp, i + 1, seen_numbers, added_count, hymns_needed, tipo)

\* mutant: hymns_needed is one short
special_occasion_topup_one_short(hs, tipo) ==
    LET strict == strict_festive_hymns(hs, tipo)
    IN  IF Len(strict) < required_hymns
        THEN topup_from(filter_by_category(hs, OCCASIONI_SPECIALI), 1,
                        Numbers(unique_festive_hymns(hs, tipo)), 0,
                        required_hymns - Len(strict) - 1, tipo)
        ELSE <<>>

\* the hymns the top-up appends to other_hymns on a festive Sunday
special_occasion_topup(hs, tipo) ==
    LET strict == strict_festive_hymns(hs, tipo)
    IN  IF Len(strict) < required_hymns
        THEN topup_from(filter_by_category(hs, OCCASIONI_SPECIALI), 1,
                        Numbers(unique_festive_hymns(hs, tipo)), 0,
                        required_hymns - Len(strict), tipo)
        ELSE <<>>

\* _get_other_hymns: [error, hymns]
get_other_hymns(hs, domenica_festiva, tipo_festivita) ==
    IF domenica_festiva
    THEN IF tipo_festivita = None
         THEN [error |-> InvalidFilterError, hymns |-> <<>>]
         ELSE [error |-> None,
               hymns |-> strict_festive_hymns(hs, tipo_festivita)
                         \o special_occasion_topup(hs, tipo_festivita)]
    ELSE [error |-> None,
          hymns |-> exclude_festive_hymns(
                        exclude_special_occasions(
                            SelectSeq(hs, LAMBDA h : Lower(h.category) # SACRAMENTO)),
                        None)]

-----------------------------------------------------------------------------
(* HymnService.get_hymns *)

\* mutant: four hymns on every Sunday
hymn_count_always_four(prima_domenica) == 4

hymn_count(prima_domenica) == IF prima_domenica THEN 3 ELSE 4

\* mutant: k elements drawn with replacement
Samples_with_replacement(pool, k) ==
    {[i \in 1..k |-> pool[f[i]]] : f \in [1..k -> 1..Len(pool)]}

\* random.sample(pool, k): k elements at distinct positions, in any order
Samples(pool, k) ==
    {[i \in 1..k |-> pool[f[i]]] :
        f \in {g \in [1..k -> 1..Len(pool)] :
                 \A i, j \in 1..k : i # j => g[i] # g[j]}}

\* mutant: the sacramento hymn opens the list
arrange_sacramento_first(selected_other, selected_sacramento) ==
    <<selected_sacramento>> \o selected_other

\* first hymn, then sacramento, then the rest
arrange(selected_other, selected_sacramento) ==
    <<selected_other[1], selected_sacramento>> \o Tail(selected_other)

Raised(e) == [error |-> e, hymns |-> <<>>]

Returned(hs) == [error |-> None, hymns |-> hs]

\* mutant: the size test is len(other_hymns) <= required_other_hymns
get_hymns_off_by_one(hs, prima_domenica, domenica_festiva, tipo_festivita) ==
    LET sacramento_hymns == get_sacramento_hymns(hs, domenica_festiva, tipo_festivita)
        other == get_other_hymns(hs, domenica_festiva, tipo_festivita)
        required_other_hymns == hymn_count(prima_domenica) - 1
    IN  IF sacramento_hymns = <<>> THEN {Raised(InsufficientHymnsError)}
        ELSE IF other.error # None THEN {Raised(other.error)}
        ELSE IF Len(other.hymns) <= required_other_hymns
             THEN {Raised(InsufficientHymnsError)}
        ELSE {Returned(arrange(so, ss)) :
                so \in Samples(other.hymns, required_other_hymns),
                ss \in Range(sacramento_hymns)}

\* every outcome get_hymns can have: a raised error or a returned list
get_hymns(hs, prima_domenica, domenica_festiva, tipo_festivita) ==
    LET sacramento_hymns == get_sacramento_hymns(hs, domenica_festiva, tipo_festivita)
        other == get_other_hymns(hs, domenica_festiva, tipo_festivita)
        required_other_hymns == hymn_count(prima_domenica) - 1
    IN  IF sacramento_hymns = <<>> THEN {Raised(InsufficientHymnsError)}
        ELSE IF other.error # None THEN {Raised(other.error)}
        ELSE IF Len(other.hymns) < required_other_hymns
             THEN {Raised(InsufficientHymnsError)}
        ELSE {Returned(arrange(so, ss)) :
                so \in Samples(other.hymns, required_other_hymns),
                ss \in Range(sacramento_hymns)}

-----------------------------------------------------------------------------
(* Catalogs *)

\* the kinds of catalog entry, as the book names them (bookSectionTitle, tags):
\* each category with the sets of festive tags that the filters tell apart;
\* two entries are written in mixed case
Kinds ==
    << [category |-> SACRAMENTO, tags |-> {}],
       [category |-> SACRAMENTO, tags |-> {NATALE}],
       [category |-> "Sacramento", tags |-> {"Pasqua"}],
       [category |-> NATALE, tags |-> {}],
       [category |-> NATALE, tags |-> {PASQUA}],
       [category |-> PASQUA, tags |-> {}],
       [category |-> PASQUA, tags |-> {NATALE}],
       [category |-> OCCASIONI_SPECIALI, tags |-> {}],
       [category |-> OCCASIONI_SPECIALI, tags |-> {NATALE}],
       [category |-> OCCASIONI_SPECIALI, tags |-> {PASQUA}],
       [category |-> "vangelo", tags |-> {}],
       [category |-> "vangelo", tags |-> {"Natale"}],
       [category |-> "vangelo", tags |-> {PASQUA}],
       [category |-> "vangelo", tags |-> {NATALE, PASQUA}] >>

\* the lists of kinds of length n whose kinds are listed in ascending order
RECURSIVE KindLists(_, _)
KindLists(n, lo) ==
    IF n = 0 THEN {<<>>}
    ELSE UNION {{<<k>> \o s : s \in KindLists(n - 1, k)} : k \in lo..Len(Kinds)}

\* _load_hymns: Hymn.model_validate on every item; songNumber is the item's
\* place in the book
load_hymns(ks) ==
    [i \in 1..Len(ks) |->
        [number |-> i,
         category |-> normalize_category(Kinds[ks[i]].category),
         tags |-> Kinds[ks[i]].tags]]

PoolCatalogs == UNION {{load_hymns(ks) : ks \in KindLists(n, 1)} : n \in 1..MaxHymns}

-----------------------------------------------------------------------------
(* Operations of HymnService *)

Contexts ==
    [prima_domenica : BOOLEAN, domenica_festiva : BOOLEAN,
     tipo_festivita : FestivityType \cup {None}]

\* the arguments of the pool methods, which take no prima_domenica
PoolContexts == [domenica_festiva : BOOLEAN, tipo_festivita : FestivityType \cup {None}]

NoArgs == [prima_domenica |-> FALSE, domenica_festiva |-> FALSE, tipo_festivita |-> None]

\* GET /get_hymns: HymnService.get_hymns
GetHymns(c) ==
    /\ op = "idle"
    /\ op' = "get_hymns"
    /\ args' = c
    /\ ret' \in get_hymns(hymns, c.prima_domenica, c.domenica_festiva, c.tipo_festivita)
    /\ log' = <<>>
    /\ UNCHANGED <<hymns, selections, now>>

\* a direct call of HymnService._get_sacramento_hymns
GetSacramentoHymns(c) ==
    /\ op = "idle"
    /\ op' = "_get_sacramento_hymns"
    /\ args' = c
    /\ ret' = Returned(get_sacramento_hymns(hymns, c.domenica_festiva, c.tipo_festivita))
    /\ log' = <<>>
    /\ UNCHANGED <<hymns, selections, now>>

\* a direct call of HymnService._get_other_hymns
GetOtherHymns(c) ==
    /\ op = "idle"
    /\ op' = "_get_other_hymns"
    /\ args' = c
    /\ ret' = get_other_hymns(hymns, c.domenica_festiva, c.tipo_festivita)
    /\ log' = <<>>
    /\ UNCHANGED <<hymns, selections, now>>

\* the caller has the result: the service keeps nothing of the call
Respond ==
    /\ op # "idle"
    /\ op' = "idle"
    /\ args' = NoArgs
    /\ ret' = Returned(<<>>)
    /\ log' = <<>>
    /\ UNCHANGED <<hymns, selections, now>>

InitPools ==
    /\ hymns \in PoolCatalogs
    /\ selections = <<>>
    /\ now = 0
    /\ op = "idle"
    /\ args = NoArgs
    /\ ret = Returned(<<>>)
    /\ log = <<>>

NextPools ==
    \/ \E c \in Contexts : GetHymns(c)
    \/ \E c \in PoolContexts : GetSacramentoHymns(c)
    \/ \E c \in PoolContexts : GetOtherHymns(c)
    \/ Respond

SpecPools == InitPools /\ [][NextPools]_vars

-----------------------------------------------------------------------------
(* The ward history: wards, hymn_selections, selected_hymns *)

\* the wards table
Wards == {[id |-> 1, name |-> "ward a"], [id |-> 2, name |-> "ward b"]}

\* how a request names its ward: by ward_id, by ward_name, or by both
WardRefs ==
    {[ward_id |-> w.id, ward_name |-> None] : w \in Wards}
    \cup {[ward_id |-> NoId, ward_name |-> w.name] : w \in Wards}
    \cup {[ward_id |-> w.id, ward_name |-> w.name] : w \in Wards}

\* Ward.name of the ward a selection row joins to
WardName(id) == (CHOOSE w \in Wards : w.id = id).name

\* HymnHistoryService.lookback_weeks
lookback_weeks == 5

\* the weeks_back of the narrower re-query
relaxed_weeks == 3

DaysPerWeek == 7

\* datetime.weekday() of a day: 0 is Monday, 6 is Sunday
weekday(d) == d % DaysPerWeek

get_next_sunday(from_date) ==
    IF weekday(from_date) = 6 THEN from_date
    ELSE from_date + ((6 - weekday(from_date)) % DaysPerWeek)

get_recent_hymn_numbers(sel, t, ward_id, ward_name, weeks_back) ==
    LET cutoff_date == t - DaysPerWeek * weeks_back
        recent_selections ==
            {i \in 1..Len(sel) :
                /\ sel[i].selection_date >= cutoff_date
                /\ IF ward_id # NoId THEN sel[i].ward_id = ward_id
                   ELSE IF ward_name # None THEN WardName(sel[i].ward_id) = ward_name
                   ELSE TRUE}
    IN  UNION {{sel[i].hymns[j].hymn_number : j \in 1..Len(sel[i].hymns)} :
                 i \in recent_selections}

filter_available_hymns(hs, used_hymns) ==
    SelectSeq(hs, LAMBDA h : h.number \notin used_hymns)

\* log lines of get_smart_hymns
Recent(weeks_back, used_hymns) ==
    [ev |-> "recent", weeks_back |-> weeks_back, used |-> used_hymns]

Warning(text) == [ev |-> "warning", text |-> text]

NoSacramentoWarning == Warning("No available Sacramento hymns, expanding lookback period")
AnySacramentoWarning == Warning("Still no Sacramento hymns available, using any Sacramento hymn")
NotEnoughWarning == Warning("Not enough other hymns available, expanding lookback")
FallbackWarning == Warning("Still not enough hymns, falling back to original selection")

\* mutant: an empty sacramento pool goes straight to the full pool
sacramento_step_skip_three_weeks(hs, sel, t, ward_id, ward_name, domenica_festiva, tipo_festivita) ==
    LET used5 == get_recent_hymn_numbers(sel, t, ward_id, ward_name, lookback_weeks)
        sacramento_hymns == get_sacramento_hymns(hs, domenica_festiva, tipo_festivita)
        available5 == filter_available_hymns(sacramento_hymns, used5)
    IN  IF available5 # <<>>
        THEN [used_hymns |-> used5, available_sacramento |-> available5,
              log |-> <<Recent(lookback_weeks, used5)>>]
        ELSE [used_hymns |-> used5, available_sacramento |-> sacramento_hymns,
              log |-> <<Recent(lookback_weeks, used5), NoSacramentoWarning,
                        AnySacramentoWarning>>]

\* the sacramento step of get_smart_hymns: used_hymns and available_sacramento
\* after it, and what it logged
sacramento_step(hs, sel, t, ward_id, ward_name, domenica_festiva, tipo_festivita) ==
    LET used5 == get_recent_hymn_numbers(sel, t, ward_id, ward_name, lookback_weeks)
        sacramento_hymns == get_sacramento_hymns(hs, domenica_festiva, tipo_festivita)
        available5 == filter_available_hymns(sacramento_hymns, used5)
        used3 == get_recent_hymn_numbers(sel, t, NoId, ward_name, relaxed_weeks)
        available3 == filter_available_hymns(sacramento_hymns, used3)
    IN  IF available5 # <<>>
        THEN [used_hymns |-> used5, available_sacramento |-> available5,
              log |-> <<Recent(lookback_weeks, used5)>>]
        ELSE IF available3 # <<>>
        THEN [used_hymns |-> used3, available_sacramento |-> available3,
              log |-> <<Recent(lookback_weeks, used5), NoSacramentoWarning,
                        Recent(relaxed_weeks, used3)>>]
        ELSE [used_hymns |-> used3,
              available_sacramento |->
                  get_sacramento_hymns(hs, domenica_festiva, tipo_festivita),
              log |-> <<Recent(lookback_weeks, used5), NoSacramentoWarning,
                        Recent(relaxed_weeks, used3), AnySacramentoWarning>>]

\* the other-hymns step: available_other, whether the call falls back to
\* get_hymns, and what it logged
other_step(other_hymns, used_hymns, sel, t, ward_name, required_other_hymns) ==
    LET available == filter_available_hymns(other_hymns, used_hymns)
        used3 == get_recent_hymn_numbers(sel, t, NoId, ward_name, relaxed_weeks)
        available3 == filter_available_hymns(other_hymns, used3)
    IN  IF Len(available) >= required_other_hymns
        THEN [available_other |-> available, fallback |-> FALSE, log |-> <<>>]
        ELSE IF Len(available3) >= required_other_hymns
        THEN [available_other |-> available3, fallback |-> FALSE,
              log |-> <<NotEnoughWarning, Recent(relaxed_weeks, used3)>>]
        ELSE [available_other |-> available3, fallback |-> TRUE,
              log |-> <<NotEnoughWarning, Recent(relaxed_weeks, used3),
                        FallbackWarning>>]

IndexError == "IndexError"

\* mutant: a pool still short after the 3-week re-query is an error
get_smart_hymns_no_fallback(hs, sel, t, ward_id, ward_name, prima_domenica, domenica_festiva, tipo_festivita) ==
    LET s == sacramento_step(hs, sel, t, ward_id, ward_name,
                             domenica_festiva, tipo_festivita)
        other == get_other_hymns(hs, domenica_festiva, tipo_festivita)
        required_other_hymns == hymn_count(prima_domenica) - 1
        o == other_step(other.hymns, s.used_hymns, sel, t, ward_name,
                        required_other_hymns)
    IN  IF other.error # None
        THEN {[ret |-> Raised(other.error), log |-> s.log]}
        ELSE IF o.fallback
        THEN {[ret |-> Raised(InsufficientHymnsError), log |-> s.log \o o.log]}
        ELSE IF s.available_sacramento = <<>>
        THEN {[ret |-> Raised(IndexError), log |-> s.log \o o.log]}
        ELSE {[ret |-> Returned(arrange(so, ss)), log |-> s.log \o o.log] :
                so \in Samples(o.available_other, required_other_hymns),
                ss \in Range(s.available_sacramento)}

\* every outcome of get_smart_hymns: [ret, log]
get_smart_hymns(hs, sel, t, ward_id, ward_name, prima_domenica, domenica_festiva, tipo_festivita) ==
    LET s == sacramento_step(hs, sel, t, ward_id, ward_name,
                             domenica_festiva, tipo_festivita)
        other == get_other_hymns(hs, domenica_festiva, tipo_festivita)
        required_other_hymns == hymn_count(prima_domenica) - 1
        o == other_step(other.hymns, s.used_hymns, sel, t, ward_name,
                        required_other_hymns)
    IN  IF other.error # None
        THEN {[ret |-> Raised(other.error), log |-> s.log]}
        ELSE IF o.fallback
        THEN {[ret |-> r, log |-> s.log \o o.log] :
                r \in get_hymns(hs, prima_domenica, domenica_festiva, tipo_festivita)}
        ELSE IF s.available_sacramento = <<>>
        THEN {[ret |-> Raised(IndexError), log |-> s.log \o o.log]}
        ELSE {[ret |-> Returned(arrange(so, ss)), log |-> s.log \o o.log] :
                so \in Samples(o.available_other, required_other_hymns),
                ss \in Range(s.available_sacramento)}

\* the SelectedHymn rows save_selection creates for a list of hymns
selected_hymns(hs) ==
    [p \in 1..Len(hs) |->
        [hymn_number |-> hs[p].number, hymn_category |-> hs[p].category,
         position |-> p]]

\* Ward.id of the ward save_selection finds for the request
ward_of(ward_id, ward_name) ==
    IF ward_id # NoId THEN ward_id
    ELSE (CHOOSE w \in Wards : w.name = ward_name).id

\* the table after save_selection added a HymnSelection with its rows
save_selection(sel, hs, ward_id, ward_name, selection_date) ==
    Append(sel, [ward_id |-> ward_of(ward_id, ward_name),
                 selection_date |-> selection_date,
                 hymns |-> selected_hymns(hs)])

-----------------------------------------------------------------------------
(* Operations of HymnHistoryService and the hymn routes *)

\* the catalogs of the history specification
HistoryCatalogs ==
    {load_hymns(ks) : ks \in {<<1, 4, 11, 11, 12>>, <<1, 1, 11, 11>>,
                              <<1, 4, 4, 8, 8>>, <<11, 11, 11>>}}

\* the selection_date a request can carry: four weeks back, or none (the
\* route then takes get_next_sunday())
SelectionDates == {now - 4 * DaysPerWeek, get_next_sunday(now)}

\* the contexts of the history requests: a festivity is named only with a
\* festive Sunday
HistoryContexts ==
    {c \in Contexts : c.domenica_festiva \/ c.tipo_festivita = None}

HymnAPIExceptions == {InvalidFilterError, InsufficientHymnsError}

InternalServerError == "InternalServerError"

\* the route's except clauses: a HymnAPIException passes, anything else is a 500
route_result(r) ==
    IF r.error = None \/ r.error \in HymnAPIExceptions THEN r
    ELSE Raised(InternalServerError)

\* mutant: the route saves whatever save_selection says
smart_route_store_always(sel, r, save, ward_id, ward_name, d) ==
    IF r.error = None
    THEN save_selection(sel, r.hymns, ward_id, ward_name, d)
    ELSE sel

\* the table after the route: save_selection runs if asked and the selection
\* was made
smart_route_store(sel, r, save, ward_id, ward_name, d) ==
    IF save /\ r.error = None
    THEN save_selection(sel, r.hymns, ward_id, ward_name, d)
    ELSE sel

\* GET /get_hymns_smart: get_smart_hymns, then save_selection if asked
GetHymnsSmart(w, c, d, save) ==
    /\ op = "idle"
    /\ \E out \in get_smart_hymns(hymns, selections, now, w.ward_id, w.ward_name,
                                  c.prima_domenica, c.domenica_festiva,
                                  c.tipo_festivita) :
          /\ ret' = route_result(out.ret)
          /\ log' = out.log
          /\ selections' = smart_route_store(selections, out.ret, save,
                                              w.ward_id, w.ward_name, d)
    /\ op' = "get_hymns_smart"
    /\ args' = [ward_id |-> w.ward_id, ward_name |-> w.ward_name,
                prima_domenica |-> c.prima_domenica,
                domenica_festiva |-> c.domenica_festiva,
                tipo_festivita |-> c.tipo_festivita,
                save_selection |-> save]
    /\ UNCHANGED <<hymns, now>>

Init ==
    /\ hymns \in HistoryCatalogs
    /\ selections = <<>>
    /\ now = 0
    /\ op = "idle"
    /\ args = NoArgs
    /\ ret = Returned(<<>>)
    /\ log = <<>>

Next ==
    \/ \E c \in HistoryContexts : GetHymns(c)
    \/ \E w \in WardRefs, c \in HistoryContexts, d \in SelectionDates, save \in BOOLEAN :
          /\ save => Len(selections) < MaxSelections
          /\ GetHymnsSmart(w, c, d, save)
    \/ Respond

Spec == Init /\ [][Next]_vars

-----------------------------------------------------------------------------
(* Replacement of one hymn: get_replacement_hymn, get_available_hymns *)

ValueError == "ValueError"

\* mutant: every position draws from the other pool
position_pool_always_other(hs, position, domenica_festiva, tipo_festivita) ==
    get_other_hymns(hs, domenica_festiva, tipo_festivita)

\* the pool of a position: [error, hymns]; position 2 is always sacramento
position_pool(hs, position, domenica_festiva, tipo_festivita) ==
    IF position = 2
    THEN [error |-> None,
          hymns |-> get_sacramento_hymns(hs, domenica_festiva, tipo_festivita)]
    ELSE get_other_hymns(hs, domenica_festiva, tipo_festivita)

\* mutant: the wider retry forgets exclude_numbers too
get_replacement_hymn_retry_all(hs, sel, t, position, ward_id, ward_name, domenica_festiva, tipo_festivita, exclude_numbers) ==
    LET used_hymns == get_recent_hymn_numbers(sel, t, ward_id, ward_name,
                                              lookback_weeks)
        all_excluded == used_hymns \cup exclude_numbers
        pool == position_pool(hs, position, domenica_festiva, tipo_festivita)
        available == SelectSeq(pool.hymns, LAMBDA h : h.number \notin all_excluded)
        retry == IF available # <<>> THEN available ELSE pool.hymns
    IN  IF pool.error # None
        THEN {[ret |-> Raised(pool.error), log |-> <<Recent(lookback_weeks, used_hymns)>>]}
        ELSE IF retry = <<>>
        THEN {[ret |-> Raised(ValueError), log |-> <<Recent(lookback_weeks, used_hymns)>>]}
        ELSE {[ret |-> Returned(<<h>>), log |-> <<Recent(lookback_weeks, used_hymns)>>] :
                h \in Range(retry)}

\* mutant: the history exclusion is never applied
get_replacement_hymn_ignoring_history(hs, sel, t, position, ward_id, ward_name, domenica_festiva, tipo_festivita, exclude_numbers) ==
    LET used_hymns == get_recent_hymn_numbers(sel, t, ward_id, ward_name,
                                              lookback_weeks)
        pool == position_pool(hs, position, domenica_festiva, tipo_festivita)
        available == SelectSeq(pool.hymns, LAMBDA h : h.number \notin exclude_numbers)
    IN  IF pool.error # None
        THEN {[ret |-> Raised(pool.error), log |-> <<Recent(lookback_weeks, used_hymns)>>]}
        ELSE IF available = <<>>
        THEN {[ret |-> Raised(ValueError), log |-> <<Recent(lookback_weeks, used_hymns)>>]}
        ELSE {[ret |-> Returned(<<h>>), log |-> <<Recent(lookback_weeks, used_hymns)>>] :
                h \in Range(available)}

\* every outcome of get_replacement_hymn: [ret, log]; a returned hymn is a
\* list of one
get_replacement_hymn(hs, sel, t, position, ward_id, ward_name, domenica_festiva, tipo_festivita, exclude_numbers) ==
    LET used_hymns == get_recent_hymn_numbers(sel, t, ward_id, ward_name,
                                              lookback_weeks)
        all_excluded == used_hymns \cup exclude_numbers
        pool == position_pool(hs, position, domenica_festiva, tipo_festivita)
        available == SelectSeq(pool.hymns, LAMBDA h : h.number \notin all_excluded)
        retry == IF available # <<>> THEN available
                 ELSE SelectSeq(pool.hymns, LAMBDA h : h.number \notin exclude_numbers)
    IN  IF pool.error # None
        THEN {[ret |-> Raised(pool.error), log |-> <<Recent(lookback_weeks, used_hymns)>>]}
        ELSE IF retry = <<>>
        THEN {[ret |-> Raised(ValueError), log |-> <<Recent(lookback_weeks, used_hymns)>>]}
        ELSE {[ret |-> Returned(<<h>>), log |-> <<Recent(lookback_weeks, used_hymns)>>] :
                h \in Range(retry)}

\* list.insert of h after the hymns whose number is not larger
RECURSIVE insert_by_number(_, _)
insert_by_number(h, sorted) ==
    IF sorted = <<>> THEN <<h>>
    ELSE IF h.number < Head(sorted).number THEN <<h>> \o sorted
    ELSE <<Head(sorted)>> \o insert_by_number(h, Tail(sorted))

\* mutant: the list is left in pool order
sort_by_number_unsorted(hs) == hs

\* available.sort(key=lambda h: h.number): stable, ascending
RECURSIVE sort_by_number(_)
sort_by_number(hs) ==
    IF hs = <<>> THEN <<>>
    ELSE insert_by_number(hs[Len(hs)], sort_by_number(SubSeq(hs, 1, Len(hs) - 1)))

\* get_available_hymns: [ret, log]
get_available_hymns(hs, sel, t, position, ward_id, ward_name, domenica_festiva, tipo_festivita, exclude_numbers) ==
    LET used_hymns == get_recent_hymn_numbers(sel, t, ward_id, ward_name,
                                              lookback_weeks)
        all_excluded == used_hymns \cup exclude_numbers
        pool == position_pool(hs, position, domenica_festiva, tipo_festivita)
        available == SelectSeq(pool.hymns, LAMBDA h : h.number \notin all_excluded)
    IN  IF pool.error # None
        THEN [ret |-> Raised(pool.error), log |-> <<Recent(lookback_weeks, used_hymns)>>]
        ELSE [ret |-> Returned(sort_by_number(available)),
              log |-> <<Recent(lookback_weeks, used_hymns)>>]

\* position: Query(ge=1, le=4)
Positions == 1..4

\* the exclude_numbers a request can carry: none, one hymn of the catalog, or
\* all of them
ExcludeSets == {{}, 1..Len(hymns)} \cup {{n} : n \in 1..Len(hymns)}

\* the catalogs of the replacement specification
ReplaceCatalogs == {load_hymns(ks) : ks \in {<<1, 1, 11, 11>>, <<1, 8, 12>>}}

\* the contexts of the replacement requests (prima_domenica is not read)
ReplaceContexts ==
    {c \in PoolContexts : c.domenica_festiva \/ c.tipo_festivita = None}

\* GET /get_replacement_hymn
GetReplacementHymn(w, position, c, e) ==
    /\ op = "idle"
    /\ \E out \in get_replacement_hymn(hymns, selections, now, position,
                                       w.ward_id, w.ward_name,
                                       c.domenica_festiva, c.tipo_festivita, e) :
          /\ ret' = route_result(out.ret)
          /\ log' = out.log
    /\ op' = "get_replacement_hymn"
    /\ args' = [position |-> position, ward_id |-> w.ward_id,
                ward_name |-> w.ward_name,
                domenica_festiva |-> c.domenica_festiva,
                tipo_festivita |-> c.tipo_festivita, exclude_numbers |-> e]
    /\ UNCHANGED <<hymns, selections, now>>

\* GET /get_available_hymns
GetAvailableHymns(w, position, c, e) ==
    /\ op = "idle"
    /\ LET out == get_available_hymns(hymns, selections, now, position,
                                      w.ward_id, w.ward_name,
                                      c.domenica_festiva, c.tipo_festivita, e)
       IN  /\ ret' = route_result(out.ret)
           /\ log' = out.log
    /\ op' = "get_available_hymns"
    /\ args' = [position |-> position, ward_id |-> w.ward_id,
                ward_name |-> w.ward_name,
                domenica_festiva |-> c.domenica_festiva,
                tipo_festivita |-> c.tipo_festivita, exclude_numbers |-> e]
    /\ UNCHANGED <<hymns, selections, now>>

InitReplace ==
    /\ hymns \in ReplaceCatalogs
    /\ selections = <<>>
    /\ now = 0
    /\ op = "idle"
    /\ args = NoArgs
    /\ ret = Returned(<<>>)
    /\ log = <<>>

NextReplace ==
    \/ \E c \in HistoryContexts : GetHymns(c)
    \/ \E w \in WardRefs, c \in HistoryContexts, d \in SelectionDates, save \in BOOLEAN :
          /\ save => Len(selections) < MaxSelections
          /\ GetHymnsSmart(w, c, d, save)
    \/ \E w \in WardRefs, position \in Positions, c \in ReplaceContexts, e \in ExcludeSets :
          GetReplacementHymn(w, position, c, e)
    \/ \E w \in WardRefs, position \in Positions, c \in ReplaceContexts, e \in ExcludeSets :
          GetAvailableHymns(w, position, c, e)
    \/ Respond

SpecReplace == InitReplace /\ [][NextReplace]_vars

-----------------------------------------------------------------------------
(* Vocabulary of the properties *)

PoolOps == {"get_hymns", "_get_sacramento_hymns", "_get_other_hymns"}

\* the last call returned a list of hymns
ReturnedList == ret.error = None

OtherFestivity(f) == IF f = NATALE THEN PASQUA ELSE NATALE

\* the context of the last call names a festivity of a festive Sunday
FestiveCall == args.domenica_festiva /\ args.tipo_festivita \in FestivityType

\* the "occasioni speciali" hymns of the catalog that carry no festive tag
PlainSpecialOccasions ==
    {i \in 1..Len(hymns) :
        /\ hymns[i].category = OCCASIONI_SPECIALI
        /\ tags_lower(hymns[i]) \cap FestivityType = {}}

\* how many hymns the last _get_other_hymns call returned beyond the strictly
\* festive ones
AddedCount == Len(ret.hymns) - Len(strict_festive_hymns(hymns, args.tipo_festivita))

Shortfall == Max(0, 3 - Len(strict_festive_hymns(hymns, args.tipo_festivita)))

\* the calls that return a selection
SelectOps == {"get_hymns", "get_hymns_smart"}

\* the last call was get_smart_hymns and it logged the warning
Warned(w) == op = "get_hymns_smart" /\ w \in Range(log)

-----------------------------------------------------------------------------
(* C1: Every selection returned by get_hymns and by get_smart_hymns, on     *)
(* every path, has a "sacramento" hymn as its second hymn and at no other  *)
(* place.                                                                  *)

\* C1: the second hymn of a returned selection, and only the second, has
\* category "sacramento"
C1_SacramentoSecondOnly ==
    (op \in SelectOps /\ ReturnedList)
        => /\ Len(ret.hymns) >= 2
           /\ \A i \in 1..Len(ret.hymns) :
                 (ret.hymns[i].category = SACRAMENTO) <=> (i = 2)

\* get_smart_hymns returned a selection after it gave up avoiding repeats in
\* the sacramento slot
C1_Witness == Warned(AnySacramentoWarning) /\ ReturnedList

-----------------------------------------------------------------------------
(* C2: Every selection returned by get_hymns and by get_smart_hymns has    *)
(* exactly 3 hymns on a first Sunday and exactly 4 otherwise.              *)

\* C2: a returned selection has 3 hymns if prima_domenica and 4 if not
C2_LengthByFirstSunday ==
    (op \in SelectOps /\ ReturnedList)
        => Len(ret.hymns) = IF args.prima_domenica THEN 3 ELSE 4

\* get_smart_hymns fell back to get_hymns on a first Sunday and returned a
\* selection
C2_Witness ==
    Warned(FallbackWarning) /\ ReturnedList /\ args.prima_domenica

-----------------------------------------------------------------------------
(* C3: A hymn get_smart_hymns returns outside the sacramento slot is in    *)
(* the ward's 5-week used set only if the other pool was too small both    *)
(* without the 5-week set and without the 3-week set.                      *)

\* C3 as claimed, over a call of get_smart_hymns: the used sets are those of
\* the history before the call
C3_UsedOnlyIfBothExhausted ==
    [][(op' = "get_hymns_smart" /\ ret'.error = None)
        => LET used5 == get_recent_hymn_numbers(selections, now, args'.ward_id,
                            args'.ward_name, lookback_weeks)
               used3 == get_recent_hymn_numbers(selections, now, args'.ward_id,
                            args'.ward_name, relaxed_weeks)
               other_hymns == get_other_hymns(hymns, args'.domenica_festiva,
                                  args'.tipo_festivita).hymns
               required_other_hymns == hymn_count(args'.prima_domenica) - 1
           IN  \A i \in DOMAIN ret'.hymns \ {2} :
                  ret'.hymns[i].number \in used5
                     => /\ Len(filter_available_hymns(other_hymns, used5))
                              < required_other_hymns
                        /\ Len(filter_available_hymns(other_hymns, used3))
                              < required_other_hymns]_vars


-----------------------------------------------------------------------------
(* C4: On an ordinary Sunday no hymn of the sacramento pool, of the other   *)
(* pool or of a returned selection has category "natale" or "pasqua" or    *)
(* carries the tag "natale" or "pasqua".                                   *)

-----------------------------------------------------------------------------
(* C5: On a festive Sunday with festivity F no hymn of the pools or of a   *)
(* returned selection has the other festivity's category or tag.           *)

\* C5 as claimed: whatever the hymn's own category
C5_NoOtherFestivity ==
    (op \in PoolOps /\ FestiveCall /\ ReturnedList)
        => \A h \in Range(ret.hymns) :
              /\ h.category # OtherFestivity(args.tipo_festivita)
              /\ OtherFestivity(args.tipo_festivita) \notin tags_lower(h)

\* C5 amended: no hymn has the other festivity's category, and a hymn carries
\* the other festivity's tag only if its own category is F
C5_NoOtherFestivityOutsideF ==
    (op \in PoolOps /\ FestiveCall /\ ReturnedList)
        => \A h \in Range(ret.hymns) :
              /\ h.category # OtherFestivity(args.tipo_festivita)
              /\ OtherFestivity(args.tipo_festivita) \in tags_lower(h)
                    => h.category = args.tipo_festivita

\* a festive selection was returned from a catalog that holds a hymn of another
\* category carrying the other festivity's tag
C5_Witness ==
    /\ op = "get_hymns" /\ FestiveCall /\ ReturnedList
    /\ \E i \in 1..Len(hymns) :
          /\ hymns[i].category \notin FestivityType
          /\ OtherFestivity(args.tipo_festivita) \in tags_lower(hymns[i])

-----------------------------------------------------------------------------
(* C6: get_hymns called with domenica_festiva and no tipo_festivita fails  *)
(* with InvalidFilterError, for every catalog.                             *)

C6_MissingTypeIsInvalidFilter ==
    (op = "get_hymns" /\ args.domenica_festiva /\ args.tipo_festivita = None)
        => ret.error = InvalidFilterError

-----------------------------------------------------------------------------
(* C7: For a valid context get_hymns fails with InsufficientHymnsError     *)
(* exactly when the filtered sacramento pool is empty or the filtered      *)
(* other pool has fewer than hymn_count - 1 hymns, and returns a selection *)
(* otherwise.                                                              *)

ValidCall == ~args.domenica_festiva \/ args.tipo_festivita # None

PoolsTooSmall ==
    \/ get_sacramento_hymns(hymns, args.domenica_festiva, args.tipo_festivita) = <<>>
    \/ Len(get_other_hymns(hymns, args.domenica_festiva, args.tipo_festivita).hymns)
          < (IF args.prima_domenica THEN 2 ELSE 3)

C7_InsufficientIffPoolsTooSmall ==
    (op = "get_hymns" /\ ValidCall)
        => /\ ret.error = InsufficientHymnsError <=> PoolsTooSmall
           /\ ~PoolsTooSmall => (ret.error = None /\ Len(ret.hymns) >= 3)

\* get_hymns returned a selection from an other pool of exactly the needed size
C7_Witness ==
    /\ op = "get_hymns" /\ ValidCall /\ ReturnedList /\ ~args.prima_domenica
    /\ Len(get_other_hymns(hymns, args.domenica_festiva, args.tipo_festivita).hymns) = 3

-----------------------------------------------------------------------------
(* C8: With a valid context and unfiltered pools that satisfy the          *)
(* preconditions of get_hymns, get_smart_hymns returns a selection         *)
(* whatever the history holds.                                             *)

\* C8: a valid call of get_smart_hymns on pools large enough for get_hymns
\* returns a selection
C8_HistoryNeverFails ==
    (op = "get_hymns_smart" /\ ValidCall /\ ~PoolsTooSmall) => ReturnedList

\* get_smart_hymns returned a selection all of whose hymns the ward had used in
\* the last three weeks
C8_Witness ==
    /\ Warned(AnySacramentoWarning) /\ Warned(FallbackWarning) /\ ReturnedList
    /\ \A h \in Range(ret.hymns) : h.number \in log[Len(log) - 1].used

-----------------------------------------------------------------------------
(* C9: On a festive Sunday the top-up adds exactly max(0, 3 - |strictly    *)
(* festive pool|) hymns from "occasioni speciali".                         *)

\* C9 as claimed
C9_TopUpEqualsShortfall ==
    (op = "_get_other_hymns" /\ FestiveCall /\ ReturnedList)
        => AddedCount = Shortfall

\* C9 amended: the top-up adds the shortfall, or every "occasioni speciali"
\* hymn that carries no festive tag when there are fewer of them
C9_TopUpEqualsShortfallOrAllEligible ==
    (op = "_get_other_hymns" /\ FestiveCall /\ ReturnedList)
        => AddedCount = Min(Shortfall, Cardinality(PlainSpecialOccasions))

\* a top-up that added hymns and left an eligible one out
C9_Witness ==
    /\ op = "_get_other_hymns" /\ FestiveCall /\ ReturnedList
    /\ AddedCount >= 1
    /\ Cardinality(PlainSpecialOccasions) > AddedCount

-----------------------------------------------------------------------------
(* C10: The top-up never adds more than the shortfall: with 3 or more      *)
(* strictly festive hymns the other pool is the strictly festive pool, and *)
(* otherwise the other pool has at most 3 hymns.                           *)

C10_TopUpBounded ==
    (op = "_get_other_hymns" /\ FestiveCall /\ ReturnedList)
        => LET strict == strict_festive_hymns(hymns, args.tipo_festivita)
           IN  /\ AddedCount <= Shortfall
               /\ Len(strict) >= 3 => ret.hymns = strict
               /\ Len(strict) < 3 => Len(ret.hymns) <= 3

\* three strictly festive hymns and an eligible "occasioni speciali" hymn
C10_Witness ==
    /\ op = "_get_other_hymns" /\ FestiveCall /\ ReturnedList
    /\ Len(strict_festive_hymns(hymns, args.tipo_festivita)) >= 3
    /\ PlainSpecialOccasions # {}

-----------------------------------------------------------------------------
(* Swapping a hymn of the saved selection: swap_hymn *)

\* new_hymn_number = None
NoNumber == 0

BadRequest == "BadRequest"

\* HymnService.get_hymn_by_number: the hymns with that number, first found first
get_hymn_by_number(hs, number) == SelectSeq(hs, LAMBDA h : h.number = number)

\* the places in the table of the selections update_hymn_in_selection can
\* take as the most recent of the ward: the latest selection_date, any of
\* those that share it
most_recent(sel, ward_id, ward_name) ==
    LET of_ward == {i \in 1..Len(sel) :
                      IF ward_id # NoId THEN sel[i].ward_id = ward_id
                      ELSE IF ward_name # None
                           THEN WardName(sel[i].ward_id) = ward_name
                           ELSE TRUE}
    IN  {i \in of_ward :
           \A j \in of_ward : sel[j].selection_date <= sel[i].selection_date}

\* the rows of a selection after the row at the position took the new hymn
updated_rows(rows, position, new_hymn) ==
    [p \in 1..Len(rows) |->
        IF rows[p].position = position
        THEN [hymn_number |-> new_hymn.number,
              hymn_category |-> new_hymn.category,
              position |-> rows[p].position]
        ELSE rows[p]]

\* every table update_hymn_in_selection can leave: unchanged if the ward has
\* no selection
update_hymn_in_selection(sel, position, new_hymn, ward_id, ward_name) ==
    IF most_recent(sel, ward_id, ward_name) = {} THEN {sel}
    ELSE {[sel EXCEPT ![i].hymns = updated_rows(sel[i].hymns, position, new_hymn)] :
            i \in most_recent(sel, ward_id, ward_name)}

\* the hymn swap_hymn puts in: the one asked for, or a random replacement
swap_hymn_choice(hs, sel, t, position, current_hymn_number, ward_id, ward_name, domenica_festiva, tipo_festivita, new_hymn_number) ==
    IF new_hymn_number # NoNumber
    THEN IF get_hymn_by_number(hs, new_hymn_number) = <<>>
         THEN {Raised(InternalServerError)}
         ELSE {Returned(<<Head(get_hymn_by_number(hs, new_hymn_number))>>)}
    ELSE {IF out.ret.error = ValueError THEN Raised(BadRequest) ELSE out.ret :
            out \in get_replacement_hymn(hs, sel, t, position, ward_id, ward_name,
                                         domenica_festiva, tipo_festivita,
                                         {current_hymn_number})}

\* the new_hymn_number a swap can carry: none, a hymn of the catalog, or a
\* number the catalog does not have
NewHymnNumbers == {NoNumber} \cup (1..(Len(hymns) + 1))

\* POST /swap_hymn
SwapHymn(w, position, current_hymn_number, c, new_hymn_number) ==
    /\ op = "idle"
    /\ \E r \in swap_hymn_choice(hymns, selections, now, position,
                                  current_hymn_number, w.ward_id, w.ward_name,
                                  c.domenica_festiva, c.tipo_festivita,
                                  new_hymn_number) :
          /\ ret' = r
          /\ IF r.error = None
             THEN selections' \in update_hymn_in_selection(
                                     selections, position, r.hymns[1],
                                     w.ward_id, w.ward_name)
             ELSE selections' = selections
    /\ op' = "swap_hymn"
    /\ args' = [position |-> position,
                current_hymn_number |-> current_hymn_number,
                ward_id |-> w.ward_id, ward_name |-> w.ward_name,
                domenica_festiva |-> c.domenica_festiva,
                tipo_festivita |-> c.tipo_festivita,
                new_hymn_number |-> new_hymn_number]
    /\ log' = <<>>
    /\ UNCHANGED <<hymns, now>>

\* the catalog of the swap specification
SwapCatalogs == {load_hymns(<<1, 8, 12>>)}

InitSwap ==
    /\ hymns \in SwapCatalogs
    /\ selections = <<>>
    /\ now = 0
    /\ op = "idle"
    /\ args = NoArgs
    /\ ret = Returned(<<>>)
    /\ log = <<>>

NextSwap ==
    \/ \E w \in WardRefs, c \in HistoryContexts, d \in SelectionDates, save \in BOOLEAN :
          /\ save => Len(selections) < MaxSelections
          /\ GetHymnsSmart(w, c, d, save)
    \/ \E w \in WardRefs, position \in Positions, current \in 1..Len(hymns),
          c \in ReplaceContexts, new \in NewHymnNumbers :
          SwapHymn(w, position, current, c, new)
    \/ Respond

SpecSwap == InitSwap /\ [][NextSwap]_vars

-----------------------------------------------------------------------------
(* Several selections of several wards while time passes *)

\* datetime.now() a week later
Tick ==
    /\ op = "idle"
    /\ now < MaxWeeks * DaysPerWeek
    /\ now' = now + DaysPerWeek
    /\ UNCHANGED <<hymns, selections, op, args, ret, log>>

\* the catalog of the ward specification
WardCatalogs == {load_hymns(<<1, 1, 11, 11>>)}

InitWards ==
    /\ hymns \in WardCatalogs
    /\ selections = <<>>
    /\ now = 0
    /\ op = "idle"
    /\ args = NoArgs
    /\ ret = Returned(<<>>)
    /\ log = <<>>

NextWards ==
    \/ \E w \in WardRefs, c \in HistoryContexts, d \in SelectionDates, save \in BOOLEAN :
          /\ save => Len(selections) < WardsMaxSelections
          /\ GetHymnsSmart(w, c, d, save)
    \/ Tick
    \/ Respond

SpecWards == InitWards /\ [][NextWards]_vars

-----------------------------------------------------------------------------
(* Vocabulary of the replacement properties *)

ReplaceOps == {"get_replacement_hymn", "get_available_hymns"}

\* the pool of the position the last replacement call named: [error, hymns]
PositionPool ==
    position_pool(hymns, args.position, args.domenica_festiva, args.tipo_festivita)

\* the 5-week used set of the ward the last call named
UsedByWard ==
    get_recent_hymn_numbers(selections, now, args.ward_id, args.ward_name,
                            lookback_weeks)

\* numbers of the position's pool left by the history and the caller's exclusion
PoolMinusUsedAndExcluded ==
    Numbers(PositionPool.hymns) \ (UsedByWard \cup args.exclude_numbers)

\* numbers of the position's pool left by the caller's exclusion alone
PoolMinusExcluded == Numbers(PositionPool.hymns) \ args.exclude_numbers

-----------------------------------------------------------------------------
(* C11: A hymn get_replacement_hymn returns has category "sacramento" if   *)
(* and only if the requested position is 2.                                *)

\* C11: the replacement is a sacramento hymn exactly for position 2
C11_SacramentoIffPositionTwo ==
    (op = "get_replacement_hymn" /\ ReturnedList)
        => ((ret.hymns[1].category = SACRAMENTO) <=> (args.position = 2))

\* a replacement for position 2 was returned after the history exclusion was
\* dropped
C11_Witness ==
    /\ op = "get_replacement_hymn" /\ ReturnedList /\ args.position = 2
    /\ ret.hymns[1].number \in UsedByWard

-----------------------------------------------------------------------------
(* C12: get_replacement_hymn returns a hymn of the pool outside the used   *)
(* set and exclude_numbers if there is one, otherwise a hymn of the pool   *)
(* outside exclude_numbers, and fails only if there is none.               *)

\* C12: for a call whose pool is defined, the replacement comes from the pool
\* minus used and excluded numbers when that is not empty, else from the pool
\* minus the excluded numbers, and the call fails exactly when that is empty
C12_ReplacementFromNarrowestPool ==
    (op = "get_replacement_hymn" /\ PositionPool.error = None)
        => /\ (ret.error # None) <=> (PoolMinusExcluded = {})
           /\ ReturnedList =>
                 /\ Len(ret.hymns) = 1
                 /\ ret.hymns[1] \in Range(PositionPool.hymns)
                 /\ ret.hymns[1].number \in
                       (IF PoolMinusUsedAndExcluded # {}
                        THEN PoolMinusUsedAndExcluded ELSE PoolMinusExcluded)

\* a recently used hymn was returned while the caller excluded another hymn of
\* the pool
C12_Witness ==
    /\ op = "get_replacement_hymn" /\ ReturnedList
    /\ ret.hymns[1].number \in UsedByWard
    /\ args.exclude_numbers \cap Numbers(PositionPool.hymns) # {}

-----------------------------------------------------------------------------
(* C13: get_available_hymns returns exactly the hymns of the position's    *)
(* pool that are neither recently used nor excluded, each once, in         *)
(* ascending order of number.                                              *)

\* C13: for a call whose pool is defined, the list holds the pool's hymns
\* outside used and excluded numbers, in strictly ascending number order
C13_AvailableExactAndSorted ==
    (op = "get_available_hymns" /\ PositionPool.error = None)
        => /\ ReturnedList
           /\ Range(ret.hymns) \subseteq Range(PositionPool.hymns)
           /\ Numbers(ret.hymns) = PoolMinusUsedAndExcluded
           /\ \A i \in 1..(Len(ret.hymns) - 1) :
                 ret.hymns[i].number < ret.hymns[i + 1].number

\* two hymns were returned from a pool that lists them in descending order
C13_Witness ==
    /\ op = "get_available_hymns" /\ ReturnedList /\ Len(ret.hymns) >= 2
    /\ \E i \in 1..(Len(PositionPool.hymns) - 1) :
          PositionPool.hymns[i].number > PositionPool.hymns[i + 1].number

-----------------------------------------------------------------------------
(* C18: get_replacement_hymn and get_available_hymns called for a festive  *)
(* Sunday without a festivity fail with InvalidFilterError for every       *)
(* position.                                                               *)

\* C18 as claimed: a festive call without tipo_festivita raises
\* InvalidFilterError whatever the position
C18_MissingTypeIsInvalidFilter ==
    (op \in ReplaceOps /\ args.domenica_festiva /\ args.tipo_festivita = None)
        => ret.error = InvalidFilterError

-----------------------------------------------------------------------------
(* C20: get_hymns, get_smart_hymns, get_replacement_hymn and               *)
(* get_available_hymns leave the catalog and the saved selections          *)
(* unchanged, whether they return or raise.                                *)

\* C20: a step of one of the four leaves hymns and selections as they were;
\* when the smart route saves, save_selection only adds a record
C20_ReadsLeaveStoreUnchanged ==
    [][/\ (\/ op' \in {"get_hymns", "get_replacement_hymn", "get_available_hymns"}
           \/ (op' = "get_hymns_smart" /\ ~args'.save_selection))
          => (hymns' = hymns /\ selections' = selections)
       /\ (op' = "get_hymns_smart" /\ args'.save_selection)
          => /\ hymns' = hymns
             /\ Len(selections') >= Len(selections)
             /\ SubSeq(selections', 1, Len(selections)) = selections]_vars

\* get_smart_hymns returned a selection without saving it while the history
\* held a selection
C20_Witness ==
    /\ op = "get_hymns_smart" /\ ~args.save_selection /\ ReturnedList
    /\ selections # <<>>

-----------------------------------------------------------------------------
(* C19: get_smart_hymns relaxes in order and only when needed: a 3-week    *)
(* query only after the 5-week set emptied the sacramento pool or left the *)
(* other pool short, the full sacramento pool only after the 3-week set    *)
(* left no sacramento hymn, get_hymns only after the 3-week set left the   *)
(* other pool short.                                                       *)

\* the log line at place i reports a history query of that many weeks
IsRecent(i, weeks_back) ==
    log[i].ev = "recent" /\ log[i].weeks_back = weeks_back

\* a 3-week query logged before place i whose used set satisfies Short
ThreeWeekQueryBefore(i, Short(_)) ==
    \E j \in 1..(i - 1) : IsRecent(j, relaxed_weeks) /\ Short(log[j].used)

\* the used set of the last history query the call logged
LastQueried ==
    LET i == CHOOSE j \in 1..Len(log) :
                 log[j].ev = "recent" /\ \A l \in (j + 1)..Len(log) : log[l].ev # "recent"
    IN  log[i].used

\* the used set the sacramento slot was last filtered with: the 3-week set if
\* the sacramento step re-queried, else the 5-week set
SacramentoQueried ==
    IF Warned(NoSacramentoWarning) THEN log[3].used ELSE log[1].used

\* C19: over the log of a get_smart_hymns call, with the pools of its context
C19_RelaxationInOrder ==
    op = "get_hymns_smart" =>
        LET sacramento_hymns == get_sacramento_hymns(hymns, args.domenica_festiva,
                                                     args.tipo_festivita)
            other_hymns == get_other_hymns(hymns, args.domenica_festiva,
                                           args.tipo_festivita).hymns
            required_other_hymns == hymn_count(args.prima_domenica) - 1
            NoSacramento(used) == filter_available_hymns(sacramento_hymns, used) = <<>>
            OtherShort(used) ==
                Len(filter_available_hymns(other_hymns, used)) < required_other_hymns
        IN  /\ Len(log) >= 1 /\ IsRecent(1, lookback_weeks)
            /\ \A i \in 2..Len(log) : ~IsRecent(i, lookback_weeks)
            /\ \A i \in 1..Len(log) :
                  /\ IsRecent(i, relaxed_weeks)
                        => NoSacramento(log[1].used) \/ OtherShort(log[1].used)
                  /\ log[i] = AnySacramentoWarning
                        => ThreeWeekQueryBefore(i, NoSacramento)
                  /\ log[i] = FallbackWarning
                        => ThreeWeekQueryBefore(i, OtherShort)
            /\ (ReturnedList /\ ~Warned(FallbackWarning))
                  => /\ \A i \in DOMAIN ret.hymns \ {2} :
                           ret.hymns[i].number \notin LastQueried
                     /\ ret.hymns[2].number \in SacramentoQueried
                           => Warned(AnySacramentoWarning)

\* the other pool was short at 5 weeks and large enough at 3 weeks, with a
\* sacramento hymn free at 5 weeks
C19_Witness ==
    /\ Warned(NotEnoughWarning) /\ ~Warned(FallbackWarning)
    /\ ~Warned(NoSacramentoWarning) /\ ReturnedList

-----------------------------------------------------------------------------
(* Vocabulary of the ward properties *)

\* the hymn numbers of a saved selection
SavedNumbers(selection) ==
    {selection.hymns[p].hymn_number : p \in 1..Len(selection.hymns)}

\* the last call was get_smart_hymns and it relaxed something
CallRelaxed ==
    op = "get_hymns_smart" /\ \E i \in 1..Len(log) : log[i].ev = "warning"

\* two saved selections of one ward less than lookback_weeks apart share no
\* hymn number
NoRepeatWithinWindow ==
    \A i, j \in 1..Len(selections) :
        (/\ i < j
         /\ selections[i].ward_id = selections[j].ward_id
         /\ selections[i].selection_date - selections[j].selection_date
               < lookback_weeks * DaysPerWeek
         /\ selections[j].selection_date - selections[i].selection_date
               < lookback_weeks * DaysPerWeek)
        => SavedNumbers(selections[i]) \cap SavedNumbers(selections[j]) = {}

-----------------------------------------------------------------------------
(* C14: Saved selections of one ward whose dates are less than 5 weeks     *)
(* apart share no hymn number, whatever selection_date the calls carry and *)
(* however the clock advances, provided no call needed a relaxation.       *)

\* the step is a get_hymns_smart call that saves a selection and needs no
\* relaxation
SavedWithoutRelaxation ==
    /\ op' = "get_hymns_smart"
    /\ Len(selections') = Len(selections) + 1
    /\ ~CallRelaxed'

\* C14 as claimed: a saving call that needs no relaxation never adds a
\* selection that repeats a hymn of a selection of the same ward dated less
\* than 5 weeks from it
C14_NoRepeatUnlessRelaxed ==
    [][(NoRepeatWithinWindow /\ SavedWithoutRelaxation)
          => NoRepeatWithinWindow']_vars

-----------------------------------------------------------------------------
(* C16: After any sequence of get_hymns_smart calls that save, the history *)
(* holds at most one selection per ward and selection date.                *)

\* C16 as claimed: no two records have the same ward and selection date
C16_OneSelectionPerWardAndDate ==
    \A i, j \in 1..Len(selections) :
        (/\ i # j
         /\ selections[i].ward_id = selections[j].ward_id)
        => selections[i].selection_date # selections[j].selection_date

-----------------------------------------------------------------------------
(* C17: In a get_smart_hymns call the used set of a 3-week re-query is a   *)
(* subset of the used set of the 5-week query, with several wards and      *)
(* however the ward is named.                                              *)

\* C17 as claimed: every 3-week used set the call logged lies within the
\* 5-week used set it logged first
C17_ThreeWeekSetWithinFiveWeekSet ==
    op = "get_hymns_smart" =>
        \A i \in 1..Len(log) :
            IsRecent(i, relaxed_weeks) => log[i].used \subseteq log[1].used

-----------------------------------------------------------------------------
(* C15: After any sequence of get_hymns_smart calls that save and of       *)
(* swap_hymn calls, with or without new_hymn_number, the hymn at position  *)
(* 2 of every saved selection has category "sacramento".                   *)

\* C15 as claimed: every row at position 2 holds a sacramento hymn
C15_SavedSecondIsSacramento ==
    \A i \in 1..Len(selections) :
        \A p \in 1..Len(selections[i].hymns) :
            selections[i].hymns[p].position = 2
                => selections[i].hymns[p].hymn_category = SACRAMENTO

-----------------------------------------------------------------------------
(* C21: In every selection get_hymns returns for a festive Sunday, the     *)
(* hymns that entered the other pool through the "occasioni speciali"      *)
(* top-up number at most max(0, (hymn_count - 1) - |strictly festive       *)
(* pool|), and none when the strictly festive hymns fill every slot that   *)
(* is not the sacramento slot.                                             *)

\* the hymns the top-up brought to the other pool of the last call
ToppedUp == special_occasion_topup(hymns, args.tipo_festivita)

\* the slots of the last call that are not the sacramento slot
OtherSlots == hymn_count(args.prima_domenica) - 1

\* C21 as claimed: the top-up brings at most the hymns the selection lacks
C21_TopUpWithinRemainingSlots ==
    (op = "get_hymns" /\ FestiveCall /\ ReturnedList)
        => Len(ToppedUp)
              <= Max(0, OtherSlots
                          - Len(strict_festive_hymns(hymns, args.tipo_festivita)))

-----------------------------------------------------------------------------
(* C22: Whenever swap_hymn succeeds and returns hymn h for position p of a *)
(* ward, the most recent saved selection of the ward holds h at position p *)
(* afterwards, whatever the store holds.                                   *)

\* the row at the position of the selection holds the hymn
HoldsAt(selection, position, number) ==
    \E p \in 1..Len(selection.hymns) :
        /\ selection.hymns[p].position = position
        /\ selection.hymns[p].hymn_number = number

\* C22 as claimed: the hymn a successful swap returned is in the store
C22_SwapUpdatesStore ==
    (op = "swap_hymn" /\ ReturnedList)
        => \E i \in most_recent(selections, args.ward_id, args.ward_name) :
              HoldsAt(selections[i], args.position, ret.hymns[1].number)

-----------------------------------------------------------------------------
(* Deleting a saved selection: DELETE /ward_history/{ward_name} *)

\* the values Python binds to the parameters of delete_selection
PyNone == [none |-> TRUE]

PyStr(s) == [str |-> s]

PyDate(d) == [date |-> d]

\* the text SQLite reads as the integer of an id
Numeral(id) == <<"1", "2">>[id]

\* session.query(Ward).filter(Ward.id == ward_id).first(): the integer column
\* equals an integer, or a text that is its numeral
ward_with_id(ward_id) ==
    {w \in Wards : \/ "int" \in DOMAIN ward_id /\ ward_id.int = w.id
                   \/ "str" \in DOMAIN ward_id /\ ward_id.str = Numeral(w.id)}

\* session.query(Ward).filter(Ward.name == ward_name).first()
ward_with_name(ward_name) ==
    {w \in Wards : "str" \in DOMAIN ward_name /\ ward_name.str = w.name}

AttributeError == "AttributeError"

\* the table without the row at place i
RemoveAt(sel, i) == SubSeq(sel, 1, i - 1) \o SubSeq(sel, i + 1, Len(sel))

\* HymnHistoryService.delete_selection: every outcome, as what it returns or
\* raises and the table it leaves
delete_selection(sel, ward_id, ward_name, selection_date) ==
    LET ward == IF ward_id # PyNone THEN ward_with_id(ward_id)
                ELSE IF ward_name # PyNone THEN ward_with_name(ward_name)
                ELSE {}
    IN  IF ward = {} THEN {[deleted |-> FALSE, error |-> None, selections |-> sel]}
        ELSE IF "date" \notin DOMAIN selection_date
             THEN {[deleted |-> FALSE, error |-> AttributeError, selections |-> sel]}
        ELSE LET found == {i \in 1..Len(sel) :
                             /\ \E w \in ward : sel[i].ward_id = w.id
                             /\ sel[i].selection_date >= selection_date.date
                             /\ sel[i].selection_date < selection_date.date + 1}
             IN  IF found = {}
                 THEN {[deleted |-> FALSE, error |-> None, selections |-> sel]}
                 ELSE {[deleted |-> TRUE, error |-> None,
                        selections |-> RemoveAt(sel, i)] : i \in found}

SelectionNotFound == "Selection not found"

\* DELETE /ward_history/{ward_name}?selection_date=d for a ward of the wards
\* table: the route calls delete_selection(ward_name, parsed_date), so the name
\* is bound to ward_id, the date to ward_name, and selection_date stays None
DeleteWardSelection(ward_name, d) ==
    /\ op = "idle"
    /\ \E out \in delete_selection(selections, PyStr(ward_name), PyDate(d), PyNone) :
          /\ selections' = out.selections
          /\ ret' = IF out.error # None THEN Raised(InternalServerError)
                    ELSE IF ~out.deleted THEN Raised(SelectionNotFound)
                    ELSE Returned(<<>>)
    /\ op' = "delete_ward_selection"
    /\ args' = [ward_name |-> ward_name, selection_date |-> d]
    /\ log' = <<>>
    /\ UNCHANGED <<hymns, now>>

InitDelete ==
    /\ hymns \in WardCatalogs
    /\ selections = <<>>
    /\ now = 0
    /\ op = "idle"
    /\ args = NoArgs
    /\ ret = Returned(<<>>)
    /\ log = <<>>

NextDelete ==
    \/ \E w \in WardRefs, c \in HistoryContexts, d \in SelectionDates, save \in BOOLEAN :
          /\ save => Len(selections) < MaxSelections
          /\ GetHymnsSmart(w, c, d, save)
    \/ \E w \in Wards, d \in SelectionDates : DeleteWardSelection(w.name, d)
    \/ Respond

SpecDelete == InitDelete /\ [][NextDelete]_vars

-----------------------------------------------------------------------------
(* C23: DELETE /ward_history/{ward_name}?selection_date=D removes the      *)
(* selection of the named ward dated D with its hymns and reports success, *)
(* and answers 'Selection not found' only when the ward has no selection   *)
(* on D.                                                                   *)

\* the saved selections of the named ward on the day
SelectionsOn(ward_name, d) ==
    {i \in 1..Len(selections) :
        /\ WardName(selections[i].ward_id) = ward_name
        /\ selections[i].selection_date = d}

\* C23 as claimed: 'Selection not found' is answered only if the ward has no
\* selection on the day
C23_NotFoundOnlyIfNoSelection ==
    (op = "delete_ward_selection" /\ ret.error = SelectionNotFound)
        => SelectionsOn(args.ward_name, args.selection_date) = {}

-----------------------------------------------------------------------------
(* Calendar dates: utils.date_utils.get_next_sunday on datetime values *)

\* the first year of the calendar of the date specification
FirstYear == 2024

Years == FirstYear..(FirstYear + MaxYears - 1)

is_leap(year) == year % 4 = 0 /\ (year % 100 # 0 \/ year % 400 = 0)

days_in_month(year, month) ==
    IF month = 2 THEN (IF is_leap(year) THEN 29 ELSE 28)
    ELSE IF month \in {4, 6, 9, 11} THEN 30 ELSE 31

\* the days before January 1st of the year
days_before_year(year) ==
    (year - 1) * 365 + ((year - 1) \div 4) - ((year - 1) \div 100)
        + ((year - 1) \div 400)

RECURSIVE days_before_month(_, _)
\* the days of the year before the first day of the month
days_before_month(year, month) ==
    IF month = 1 THEN 0
    ELSE days_before_month(year, month - 1) + days_in_month(year, month - 1)

\* datetime.toordinal(): 0001-01-01 is day 1
toordinal(dt) ==
    days_before_year(dt.year) + days_before_month(dt.year, dt.month) + dt.day

\* the calendar day of an ordinal
fromordinal(n) ==
    LET year == CHOOSE y \in FirstYear..(FirstYear + MaxYears) :
                    days_before_year(y) < n /\ n <= days_before_year(y + 1)
        rest == n - days_before_year(year)
        month == CHOOSE m \in 1..12 :
                    /\ days_before_month(year, m) < rest
                    /\ rest <= days_before_month(year, m) + days_in_month(year, m)
    IN  [year |-> year, month |-> month, day |-> rest - days_before_month(year, month)]

\* the day number whose weekday(d) is datetime.weekday(): 0001-01-01 was a
\* Monday
day_number(dt) == toordinal(dt) - 1

\* from_date + timedelta(days=days): the calendar day moves, the time stays
plus_days(dt, days) ==
    LET date == fromordinal(toordinal(dt) + days)
    IN  [dt EXCEPT !.year = date.year, !.month = date.month, !.day = date.day]

\* mutant: the time of from_date is kept
next_sunday_keeps_time(from_date) ==
    plus_days(from_date, get_next_sunday(day_number(from_date)) - day_number(from_date))

\* get_next_sunday on a datetime: the day of get_next_sunday, at midnight
next_sunday(from_date) ==
    [plus_days(from_date, get_next_sunday(day_number(from_date)) - day_number(from_date))
        EXCEPT !.hour = 0, !.minute = 0, !.second = 0, !.microsecond = 0]

\* times of day: midnight, the last microsecond, and one in between
Times ==
    {[hour |-> 0, minute |-> 0, second |-> 0, microsecond |-> 0],
     [hour |-> 23, minute |-> 59, second |-> 59, microsecond |-> 999999],
     [hour |-> 14, minute |-> 23, second |-> 45, microsecond |-> 123456]}

\* every datetime of the years at those times
Datetimes ==
    {dt \in {[year |-> y, month |-> m, day |-> d, hour |-> t.hour,
              minute |-> t.minute, second |-> t.second,
              microsecond |-> t.microsecond] :
                y \in Years, m \in 1..12, d \in 1..31, t \in Times} :
        dt.day <= days_in_month(dt.year, dt.month)}

\* a call of get_next_sunday(from_date)
GetNextSunday(from_date) ==
    /\ op = "idle"
    /\ op' = "get_next_sunday"
    /\ args' = [from_date |-> from_date]
    /\ ret' = [error |-> None, hymns |-> <<>>, value |-> next_sunday(from_date)]
    /\ log' = <<>>
    /\ UNCHANGED <<hymns, selections, now>>

InitDates ==
    /\ hymns \in WardCatalogs
    /\ selections = <<>>
    /\ now = 0
    /\ op = "idle"
    /\ args = NoArgs
    /\ ret = Returned(<<>>)
    /\ log = <<>>

NextDates ==
    \/ \E from_date \in Datetimes : GetNextSunday(from_date)
    \/ Respond

SpecDates == InitDates /\ [][NextDates]_vars

-----------------------------------------------------------------------------
(* C24: For every from_date, get_next_sunday returns midnight of a Sunday  *)
(* between 0 and 6 days after the calendar day of from_date: the same day  *)
(* when from_date is a Sunday, else the first Sunday after it, also across *)
(* month and year boundaries.                                              *)

\* days from the calendar day of from_date to the day returned
DaysAhead == toordinal(ret.value) - toordinal(args.from_date)

\* the datetime is a day of the calendar at 00:00:00.000000
IsMidnightOfADay(dt) ==
    /\ dt.month \in 1..12
    /\ dt.day \in 1..days_in_month(dt.year, dt.month)
    /\ dt.hour = 0 /\ dt.minute = 0 /\ dt.second = 0 /\ dt.microsecond = 0

C24_NextSundayAtMidnight ==
    op = "get_next_sunday"
        => /\ IsMidnightOfADay(ret.value)
           /\ weekday(day_number(ret.value)) = 6
           /\ DaysAhead \in 0..6
           /\ (DaysAhead = 0) <=> (weekday(day_number(args.from_date)) = 6)

\* from a Monday late in December to the first Sunday of the next year
C24_Witness ==
    /\ op = "get_next_sunday"
    /\ weekday(day_number(args.from_date)) = 0
    /\ args.from_date.hour # 0
    /\ ret.value.year = args.from_date.year + 1
    /\ DaysAhead = 6

-----------------------------------------------------------------------------
(* C25: For the same catalog, history, position, context and               *)
(* exclude_numbers, every hymn get_replacement_hymn can return is in the   *)
(* list get_available_hymns returns.                                       *)

\* the list get_available_hymns returns for the arguments of the last call
AvailableForCall ==
    get_available_hymns(hymns, selections, now, args.position, args.ward_id,
                        args.ward_name, args.domenica_festiva,
                        args.tipo_festivita, args.exclude_numbers).ret.hymns

\* C25 as claimed: the replacement is one of the available hymns
C25_ReplacementIsAvailable ==
    (op = "get_replacement_hymn" /\ ReturnedList)
        => ret.hymns[1] \in Range(AvailableForCall)

\* C25 amended: the replacement is one of the available hymns when there are
\* any; when there are none it is a hymn the ward used in the last 5 weeks
C25_ReplacementIsAvailableIfAny ==
    (op = "get_replacement_hymn" /\ ReturnedList)
        => /\ AvailableForCall # <<>> => ret.hymns[1] \in Range(AvailableForCall)
           /\ AvailableForCall = <<>> =>
                 /\ ret.hymns[1].number \in UsedByWard
                 /\ ret.hymns[1].number \notin args.exclude_numbers

\* a replacement was returned while the history kept another hymn of the pool
\* out of the available list
C25_Witness ==
    /\ op = "get_replacement_hymn" /\ ReturnedList
    /\ AvailableForCall # <<>>
    /\ UsedByWard \cap PoolMinusExcluded # {}

-----------------------------------------------------------------------------
(* Two GET /get_hymns_smart requests in flight at once. In this            *)
(* specification op, args, ret and log are kept per request: op[r] is the  *)
(* place request r has reached in the route.                               *)

Requests == {1, 2}

\* how the concurrent requests name the ward: by id or by name
RaceRefs == {w \in WardRefs : w.ward_id = 1 \/ w.ward_name = WardName(1)}

\* ordinary Sundays, first of the month or not
RaceContexts == {c \in Contexts : ~c.domenica_festiva /\ c.tipo_festivita = None}

\* the route up to the return of get_smart_hymns: the history is read and the
\* hymns are drawn in one session
GetSmartHymns(r, w, c, d) ==
    /\ op[r] = "idle"
    /\ \E out \in get_smart_hymns(hymns, selections, now, w.ward_id, w.ward_name,
                                  c.prima_domenica, c.domenica_festiva,
                                  c.tipo_festivita) :
          /\ ret' = [ret EXCEPT ![r] = route_result(out.ret)]
          /\ log' = [log EXCEPT ![r] = out.log]
    /\ op' = [op EXCEPT ![r] = "get_smart_hymns"]
    /\ args' = [args EXCEPT ![r] = [ward_id |-> w.ward_id, ward_name |-> w.ward_name,
                                    prima_domenica |-> c.prima_domenica,
                                    domenica_festiva |-> c.domenica_festiva,
                                    tipo_festivita |-> c.tipo_festivita,
                                    save_selection |-> TRUE,
                                    selection_date |-> d]]
    /\ UNCHANGED <<hymns, selections, now>>

\* the rest of the route: save_selection in a session of its own, then the
\* response
SaveSelection(r) ==
    /\ op[r] = "get_smart_hymns"
    /\ selections' = smart_route_store(selections, ret[r], args[r].save_selection,
                                        args[r].ward_id, args[r].ward_name,
                                        args[r].selection_date)
    /\ op' = [op EXCEPT ![r] = "get_hymns_smart"]
    /\ UNCHANGED <<hymns, now, args, ret, log>>

\* a catalog with two disjoint first-Sunday selections
RaceCatalogs == {load_hymns(<<1, 1, 11, 11, 11, 11>>)}

InitRace ==
    /\ hymns \in RaceCatalogs
    /\ selections = <<>>
    /\ now = 0
    /\ op = [r \in Requests |-> "idle"]
    /\ args = [r \in Requests |-> NoArgs]
    /\ ret = [r \in Requests |-> Returned(<<>>)]
    /\ log = [r \in Requests |-> <<>>]

NextRace ==
    \/ \E r \in Requests, w \in RaceRefs, c \in RaceContexts :
          GetSmartHymns(r, w, c, get_next_sunday(now))
    \/ \E r \in Requests : SaveSelection(r)

SpecRace == InitRace /\ [][NextRace]_vars

-----------------------------------------------------------------------------
(* C26: Two get_hymns_smart requests with save_selection=true for the same *)
(* ward and selection date that run concurrently save selections with no   *)
(* hymn number in common, provided neither needs a relaxation.             *)

\* request r saved its selection and needed no relaxation
SavedUnrelaxed(r) ==
    /\ op[r] = "get_hymns_smart"
    /\ ret[r].error = None
    /\ \A i \in 1..Len(log[r]) : log[r][i].ev # "warning"

\* C26 as claimed: the selections two unrelaxed requests saved for one ward
\* and date share no hymn number
C26_ConcurrentNoRepeat ==
    (/\ SavedUnrelaxed(1) /\ SavedUnrelaxed(2)
     /\ Len(selections) = 2
     /\ selections[1].ward_id = selections[2].ward_id
     /\ selections[1].selection_date = selections[2].selection_date)
        => SavedNumbers(selections[1]) \cap SavedNumbers(selections[2]) = {}

-----------------------------------------------------------------------------
(* C27: A get_smart_hymns call for a ward named by ward_id only or by      *)
(* ward_name only can return the same selections on any two stores that    *)
(* agree on the selections of that ward: the selections of other wards     *)
(* exclude nothing, on any path.                                           *)

\* the saved selections of the ward a request names
OwnSelections(sel, ward_id, ward_name) ==
    SelectSeq(sel, LAMBDA s : IF ward_id # NoId THEN s.ward_id = ward_id
                              ELSE WardName(s.ward_id) = ward_name)

\* what the route can answer to the arguments on a store
SmartAnswers(sel, a) ==
    {route_result(out.ret) :
        out \in get_smart_hymns(hymns, sel, now, a.ward_id, a.ward_name,
                                a.prima_domenica, a.domenica_festiva,
                                a.tipo_festivita)}

\* C27 as claimed: what a call answers on the store is an answer it can give
\* on the store that holds the selections of its ward alone
C27_OtherWardsExcludeNothing ==
    [][(/\ op' = "get_hymns_smart"
        /\ (args'.ward_id = NoId \/ args'.ward_name = None))
          => ret' \in SmartAnswers(
                 OwnSelections(selections, args'.ward_id, args'.ward_name),
                 args')]_vars

-----------------------------------------------------------------------------
(* C28: When the festive-filtered sacramento pool is empty, get_smart_hymns *)
(* fails with InsufficientHymnsError, as get_hymns does, for every history  *)
(* and whatever the size of the other pool, and with no other error.        *)

\* the sacramento pool of the context of the last call is empty
NoSacramentoPool ==
    get_sacramento_hymns(hymns, args.domenica_festiva, args.tipo_festivita) = <<>>

\* C28 as claimed: without a sacramento pool the call raises
\* InsufficientHymnsError
C28_NoSacramentoIsInsufficient ==
    (op = "get_hymns_smart" /\ NoSacramentoPool)
        => ret.error = InsufficientHymnsError

-----------------------------------------------------------------------------
(* C29: No hymn number occurs at two positions of a selection get_hymns or *)
(* get_smart_hymns returns, on ordinary and festive Sundays and on every   *)
(* fallback path, for a catalog whose numbers are unique.                  *)

C29_NoNumberTwice ==
    (op \in SelectOps /\ ReturnedList)
        => \A i, j \in 1..Len(ret.hymns) :
              i # j => ret.hymns[i].number # ret.hymns[j].number

\* get_smart_hymns fell back to get_hymns on a festive Sunday and returned a
\* selection with a topped-up "occasioni speciali" hymn
C29_Witness ==
    /\ op = "get_hymns_smart" /\ ReturnedList /\ FestiveCall
    /\ Warned(FallbackWarning)
    /\ \E i \in 1..Len(ret.hymns) : ret.hymns[i].category = OCCASIONI_SPECIALI

-----------------------------------------------------------------------------
(* C30: swap_hymn without new_hymn_number, applied to a most recent saved  *)
(* selection whose hymn numbers are pairwise distinct, leaves them         *)
(* pairwise distinct, whatever the age of the selection and the history.   *)

\* no saved selection holds a hymn number at two positions
SavedNumbersDistinct(sel) ==
    \A i \in 1..Len(sel) :
        \A p, q \in 1..Len(sel[i].hymns) :
            p # q => sel[i].hymns[p].hymn_number # sel[i].hymns[q].hymn_number

\* C30 as claimed: a random swap of the hymn in the slot keeps the hymn numbers
\* of the saved selections distinct
C30_SwapKeepsNumbersDistinct ==
    [][(/\ op' = "swap_hymn"
        /\ args'.new_hymn_number = NoNumber
        /\ ret'.error = None
        /\ \E i \in most_recent(selections, args'.ward_id, args'.ward_name) :
              HoldsAt(selections[i], args'.position, args'.current_hymn_number)
        /\ SavedNumbersDistinct(selections))
          => SavedNumbersDistinct(selections')]_vars

====
